---- MODULE Spec2Model ----
(***************************************************************************)
(* State-machine model of src/src/context/AppContext.jsx, the React        *)
(* context provider that holds the storefront session state.               *)
(*                                                                         *)
(* React state (useState cells) is modelled by one variable per cell.      *)
(* Every function of the provider is a closure over the state values of    *)
(* the render that created it: `view` holds the values of the latest       *)
(* committed render, handlers invoked by the UI read `view`, and an async  *)
(* function keeps the values of the render it was called from across its   *)
(* awaits (field env of an in-flight task).  A step of the model is one    *)
(* run of JavaScript from a task's start (a UI call, a response) to the    *)
(* next await of a network request.                                       *)
(*                                                                         *)
(* searchQuery and the raw setters handed to the UI are not modelled: no   *)
(* function of the provider reads or writes them.                          *)
(***************************************************************************)
EXTENDS Integers, Sequences, FiniteSets, TLC

(* ---------------------------- bounds ---------------------------------- *)

\* largest quantity a cart entry is driven to (and the negative range)
MaxQty == 2

\* number of requests that may be in flight at once
MaxTasks == 2

\* number of steps the provider may take before React commits the next render
MaxStale == 2

\* number of calls the UI makes to the functions of the provider
MaxCalls == 3

(* ---------------------------- values ---------------------------------- *)

Items == {"p1", "p2"}

EmptyCart == [i \in {} |-> 0]

\* the quantities updateCartItem(itemId, quantity) is called with
Quantities == (-1) .. MaxQty

\* JavaScript null / undefined user (both falsy, never told apart by the code)
null == [id |-> "null", cart |-> {}]

\* users the backend may answer with; cart is {} when the user object has no
\* cart field and {c} when it has cart c
BackendUsers ==
    { [id |-> "u1", cart |-> {}],
      [id |-> "u2", cart |-> {[i \in {"p2"} |-> 1]}] }

\* prices in thousandths of a currency unit (10000 is 10.00); offerPrice is
\* {} when the product has no offerPrice field and {v} when it has one
Product(id, price, offer) == [_id |-> id, price |-> price, offerPrice |-> offer]

\* product lists the backend may answer with
CatalogA == << Product("p1", 10000, {8000}) >>

CatalogB == << Product("p1", 1005, {}), Product("p2", 5000, {0}) >>

BackendCatalogs == { CatalogA, CatalogB }

\* value of BACKEND_URL when a backend is configured
ConfiguredUrl == "http://localhost:5000"

VARIABLES
    user, isSeller, showUserLogin, products, cartItems,
    backendConnected, backendChecking, loading,
    BACKEND_URL, view, stale, calls, tasks, mounted, last

state == << user, isSeller, showUserLogin, products, cartItems,
            backendConnected, backendChecking, loading >>

vars == << user, isSeller, showUserLogin, products, cartItems,
           backendConnected, backendChecking, loading,
           BACKEND_URL, view, stale, calls, tasks, mounted, last >>

(* ------------------------- JavaScript helpers ------------------------- *)

\* truthiness of a user value
Truthy(u) == u.id # "null"

\* truthiness of cartData[itemId]: the key exists and its number is not 0
HasQty(c, i) == i \in DOMAIN c /\ c[i] # 0

\* cartData[itemId] = v
Put(c, i, v) == [k \in (DOMAIN c) \cup {i} |-> IF k = i THEN v ELSE c[k]]

\* delete cartData[itemId]
Del(c, i) == [k \in (DOMAIN c) \ {i} |-> c[k]]

\* data.user.cart || {}
CartOf(u) == IF u.cart = {} THEN EmptyCart ELSE CHOOSE c \in u.cart : TRUE

\* the values a closure created by the current render captures
Snapshot ==
    [ user |-> user, cartItems |-> cartItems,
      backendConnected |-> backendConnected, products |-> products ]

\* what the last step did: the function that ran; its argument (the item of
\* a cart mutation, the caller of a loader or of a cart push that resumed,
\* the id of the user an authentication answer carries); the outcome of the
\* response it handled ("" for a call); the requests it issued, in order; the
\* toasts it showed; the value it returned ("pending" while it awaits); and,
\* when a checkBackendConnection call finished in it, the boolean that call
\* returned.  Field after is "userLogout" in the step that handles the answer
\* to a user-setting request when userLogout completed in the step before it,
\* while that request was in flight
Did(op, arg, outcome, issued, toast, ret, check) ==
    [ op |-> op, arg |-> arg, outcome |-> outcome, issued |-> issued,
      toast |-> toast, ret |-> ret, check |-> check, after |-> "" ]

\* userLogout ran to its end in the previous step
AfterLogout ==
    IF last.op = "userLogout" /\ last.ret = "undefined" THEN "userLogout" ELSE ""

Task(k, owner, env, payload) ==
    [ k |-> k, owner |-> owner, env |-> env, payload |-> payload ]

\* a request can be issued: the bound on requests in flight is not reached
\* and no identical request is in flight
CanIssue(t) == t \notin tasks /\ Cardinality(tasks) < MaxTasks

\* the UI calls a function of the context value: it can once the provider is
\* mounted, and gets the closures of the latest render (view)
Called ==
    /\ mounted
    /\ calls < MaxCalls
    /\ calls' = calls + 1
    /\ stale < MaxStale
    /\ stale' = stale + 1

\* the mount effect runs, or a response resumes the function awaiting it
Resumed ==
    /\ calls' = calls
    /\ stale < MaxStale
    /\ stale' = stale + 1

(* ------------------------------ Init ---------------------------------- *)

Init ==
    /\ user = null
    /\ isSeller = FALSE
    /\ showUserLogin = FALSE
    /\ products = << >>
    /\ cartItems = EmptyCart
    /\ backendConnected = FALSE
    /\ backendChecking = TRUE
    /\ loading = TRUE
    /\ BACKEND_URL \in {"", ConfiguredUrl}
    /\ view = [ user |-> null, cartItems |-> EmptyCart,
                backendConnected |-> FALSE, products |-> << >> ]
    /\ stale = 0
    /\ calls = 0
    /\ tasks = {}
    /\ mounted = FALSE
    /\ last = Did("render", "", "", << >>, {}, "", "")

\* React commits a render: the closures handed to the UI now see the
\* current state
Render ==
    /\ stale > 0
    /\ stale' = 0
    /\ calls' = calls
    /\ view' = Snapshot
    /\ last' = Did("render", "", "", << >>, {}, "", "")
    /\ UNCHANGED << state, BACKEND_URL, tasks, mounted >>

(* --------------------------- cart mutations --------------------------- *)

\* lines 323-328: the mapping addToCart computes
AddedCart(c, itemId) ==
    IF HasQty(c, itemId) THEN [c EXCEPT ![itemId] = @ + 1] ELSE Put(c, itemId, 1)

\* lines 362-367 without the delete of lines 365-367: a quantity that
\* reaches 0 stays stored
RemovedCartKeepingZero(c, itemId) == [c EXCEPT ![itemId] = @ - 1]

\* lines 362-367: the mapping removeFromCart computes when cartData[itemId]
\* is truthy
RemovedCart(c, itemId) ==
    IF c[itemId] - 1 = 0 THEN Del(c, itemId) ELSE [c EXCEPT ![itemId] = @ - 1]

\* updateCartItem computing nothing new: the cart it read
UpdatedCartUnapplied(c, itemId, quantity) == c

\* lines 346-347: the mapping updateCartItem computes
UpdatedCart(c, itemId, quantity) == Put(c, itemId, quantity)

\* lines 334 / 351 / 372: the condition under which the mutation pushes
AddPushes(v) == v.backendConnected

\* line 351 without its user test
UpdatePushesWithoutUser(v) == v.backendConnected

UpdatePushes(v) == v.backendConnected /\ Truthy(v.user)

RemovePushes(v) == v.backendConnected /\ Truthy(v.user)

PushTask(owner, cartData) == Task("cart", owner, FALSE, cartData)

addToCart(itemId) ==
    /\ Called
    /\ IF ~Truthy(view.user)
       THEN /\ showUserLogin' = TRUE
            /\ last' = Did("addToCart", itemId, "", << >>,
                           {"Please login to add items to cart"}, "undefined", "")
            /\ UNCHANGED << cartItems, tasks >>
       ELSE LET cartData == AddedCart(view.cartItems, itemId)
                t == PushTask("addToCart", cartData)
            IN  /\ cartData[itemId] <= MaxQty
                /\ cartItems' = cartData
                /\ IF AddPushes(view)
                   THEN /\ CanIssue(t)
                        /\ tasks' = tasks \cup {t}
                        /\ last' = Did("addToCart", itemId, "", << "/api/cart/update" >>,
                                       {"Added to cart"}, "pending", "")
                   ELSE /\ tasks' = tasks
                        /\ last' = Did("addToCart", itemId, "", << >>,
                                       {"Added to cart"}, "undefined", "")
                /\ UNCHANGED showUserLogin
    /\ UNCHANGED << user, isSeller, products, backendConnected, backendChecking,
                    loading, BACKEND_URL, view, mounted >>

updateCartItem(itemId, quantity) ==
    LET cartData == UpdatedCart(view.cartItems, itemId, quantity)
        t == PushTask("updateCartItem", cartData)
    IN  /\ Called
        /\ cartItems' = cartData
        /\ IF UpdatePushes(view)
           THEN /\ CanIssue(t)
                /\ tasks' = tasks \cup {t}
                /\ last' = Did("updateCartItem", itemId, "", << "/api/cart/update" >>,
                               {}, "pending", "")
           ELSE /\ tasks' = tasks
                /\ last' = Did("updateCartItem", itemId, "", << >>, {}, "undefined", "")
        /\ UNCHANGED << user, isSeller, showUserLogin, products, backendConnected,
                        backendChecking, loading, BACKEND_URL, view, mounted >>

removeFromCart(itemId) ==
    /\ Called
    /\ IF HasQty(view.cartItems, itemId)
       THEN LET cartData == RemovedCart(view.cartItems, itemId)
                t == PushTask("removeFromCart", cartData)
            IN  /\ view.cartItems[itemId] - 1 >= -MaxQty
                /\ cartItems' = cartData
                /\ IF RemovePushes(view)
                   THEN /\ CanIssue(t)
                        /\ tasks' = tasks \cup {t}
                        /\ last' = Did("removeFromCart", itemId, "",
                                       << "/api/cart/update" >>,
                                       {"Removed from cart"}, "pending", "")
                   ELSE /\ tasks' = tasks
                        /\ last' = Did("removeFromCart", itemId, "", << >>,
                                       {"Removed from cart"}, "undefined", "")
       ELSE /\ last' = Did("removeFromCart", itemId, "", << >>, {}, "undefined", "")
            /\ UNCHANGED << cartItems, tasks >>
    /\ UNCHANGED << user, isSeller, showUserLogin, products, backendConnected,
                    backendChecking, loading, BACKEND_URL, view, mounted >>

\* the toast a failed cart push shows, by the mutation that issued it
\* (lines 337-340, 354-356, 375-377)
PushFailureToast(owner) ==
    IF owner = "addToCart"
    THEN {"Cart updated locally but failed to sync with server"}
    ELSE {}

\* the answer to POST /api/cart/update arrives ("ok") or the request fails
CartPushResponse(t, outcome) ==
    /\ t \in tasks
    /\ Resumed
    /\ t.k = "cart"
    /\ tasks' = tasks \ {t}
    /\ last' = Did("cartPushResponse", t.owner, outcome, << >>,
                   IF outcome = "ok" THEN {} ELSE PushFailureToast(t.owner),
                   "undefined", "")
    /\ UNCHANGED << state, BACKEND_URL, view, mounted >>


(* ------------------------- connectivity probe ------------------------- *)

\* how the GET /api/health request can end
HealthOutcomes == {"2xx", "3xx", "4xx", "5xx", "timeout", "ECONNREFUSED"}

\* validateStatus written as status <= 500: a 5xx answer resolves too
ResolvesWith5xx(outcome) == outcome \in {"2xx", "3xx", "4xx", "5xx"}

\* line 71, validateStatus: the request resolves when a response with
\* status < 500 arrives; every other outcome rejects into the catch block
Resolves(outcome) == outcome \in {"2xx", "3xx", "4xx"}

\* lines 82-83: the toast of the catch block
CheckToast(outcome) ==
    IF outcome = "ECONNREFUSED" THEN {"Backend server is not available"} ELSE {}

\* the boolean a function returns, as last.ret / last.check show it
Bool(b) == IF b THEN "true" ELSE "false"

NoPayload == EmptyCart

\* lines 95-100, 147-151: what fetchProducts, fetchUser and fetchSeller do
\* when the closure they run in reads backendConnected = false
LoaderFallback ==
    /\ products' = << >>
    /\ loading' = FALSE
    /\ isSeller' = FALSE

\* the code that runs once checkBackendConnection has returned `connected`
\* to `owner` (lines 405-411 for refreshBackendConnection, 417-428 for
\* initializeApp, nothing for a direct call); env is the backendConnected
\* value of the closure the owner runs in, rest the other requests in flight
AfterCheck(owner, env, connected, rest, outcome, toast) ==
    IF owner = "initializeApp"
    THEN IF connected
         THEN IF env
              THEN LET new == { Task("products", owner, env, NoPayload),
                                Task("user", owner, env, NoPayload),
                                Task("seller", owner, env, NoPayload) }
                   IN  /\ new \cap rest = {}
                       /\ loading' = TRUE
                       /\ tasks' = rest \cup new
                       /\ last' = Did(owner, "", outcome,
                                      << "/api/product/list", "/api/user/is-auth",
                                         "/api/seller/is-auth" >>,
                                      toast, "pending", Bool(connected))
                       /\ UNCHANGED << products, isSeller >>
              ELSE /\ LoaderFallback
                   /\ tasks' = rest
                   /\ last' = Did(owner, "", outcome, << >>, toast, "undefined",
                                  Bool(connected))
         ELSE /\ loading' = FALSE
              /\ tasks' = rest
              /\ last' = Did(owner, "", outcome, << >>,
                     toast \cup {"Backend server not available. Please check your connection."},
                     "undefined", Bool(connected))
              /\ UNCHANGED << products, isSeller >>
    ELSE IF owner = "refreshBackendConnection" /\ connected
    THEN IF env
         THEN LET new == Task("products", owner, env, NoPayload)
              IN  /\ new \notin rest
                  /\ loading' = TRUE
                  /\ tasks' = rest \cup {new}
                  /\ last' = Did(owner, "", outcome, << "/api/product/list" >>,
                                 toast, "pending", Bool(connected))
                  /\ UNCHANGED << products, isSeller >>
         ELSE /\ LoaderFallback
              /\ tasks' = rest
              /\ last' = Did(owner, "", outcome, << >>, toast, Bool(connected),
                             Bool(connected))
    ELSE /\ tasks' = rest
         /\ last' = Did(owner, "", outcome, << >>, toast, Bool(connected),
                        Bool(connected))
         /\ UNCHANGED << products, loading, isSeller >>

\* lines 56-72: checkBackendConnection up to its await, called by `owner`
StartCheck(owner, env) ==
    IF BACKEND_URL = ""
    THEN /\ backendConnected' = FALSE
         /\ backendChecking' = FALSE
         /\ AfterCheck(owner, env, FALSE, tasks, "", {})
    ELSE LET t == Task("health", owner, env, NoPayload)
         IN  /\ CanIssue(t)
             /\ backendChecking' = TRUE
             /\ tasks' = tasks \cup {t}
             /\ last' = Did(owner, "", "", << "/api/health" >>, {}, "pending", "")
             /\ UNCHANGED << backendConnected, products, loading, isSeller >>

\* lines 415-432: the mount effect; it runs once, in the closure of the
\* first render
initializeApp ==
    /\ ~mounted
    /\ Resumed
    /\ mounted' = TRUE
    /\ StartCheck("initializeApp", view.backendConnected)
    /\ UNCHANGED << user, showUserLogin, cartItems, BACKEND_URL, view >>

refreshBackendConnection ==
    /\ Called
    /\ StartCheck("refreshBackendConnection", view.backendConnected)
    /\ UNCHANGED << user, showUserLogin, cartItems, BACKEND_URL, view, mounted >>

checkBackendConnection ==
    /\ Called
    /\ StartCheck("checkBackendConnection", view.backendConnected)
    /\ UNCHANGED << user, showUserLogin, cartItems, BACKEND_URL, view, mounted >>

\* lines 74-91: the health request ends; checkBackendConnection returns to
\* its caller, which runs on in the same closure
HealthResponse(t, outcome) ==
    /\ t \in tasks
    /\ Resumed
    /\ t.k = "health"
    /\ backendConnected' = Resolves(outcome)
    /\ backendChecking' = FALSE
    /\ AfterCheck(t.owner, t.env, Resolves(outcome), tasks \ {t}, outcome,
                  CheckToast(outcome))
    /\ UNCHANGED << user, showUserLogin, cartItems, BACKEND_URL, view, mounted >>

(* ------------------------------ loaders ------------------------------- *)

\* answers to GET /api/product/list: data.success with a products array,
\* a body without success or without products, or a failed request
ProductsOutcomes ==
    { [kind |-> "ok", products |-> l] : l \in BackendCatalogs \cup {<< >>} }
    \cup { [kind |-> k, products |-> << >>] : k \in {"rejected", "error"} }

\* lines 109-119: the list fetchProducts stores for an answer
LoadedProducts(outcome) ==
    IF outcome.kind = "ok" THEN outcome.products ELSE << >>

\* answers to GET /api/user/is-auth: success with a user, a body that is not
\* a success carrying a user, or a failed request
UserOutcomes ==
    { [kind |-> "ok", user |-> u] : u \in BackendUsers }
    \cup { [kind |-> k, user |-> null] : k \in {"rejected", "error"} }

\* answers to GET /api/seller/is-auth and POST /api/user/logout
SimpleOutcomes == {"ok", "rejected", "error"}

\* lines 95-107: fetchProducts called by the UI, up to its await
fetchProducts ==
    /\ Called
    /\ IF ~view.backendConnected
       THEN /\ products' = << >>
            /\ loading' = FALSE
            /\ tasks' = tasks
            /\ last' = Did("fetchProducts", "", "", << >>, {}, "undefined", "")
       ELSE LET t == Task("products", "fetchProducts", view.backendConnected, NoPayload)
            IN  /\ CanIssue(t)
                /\ loading' = TRUE
                /\ tasks' = tasks \cup {t}
                /\ last' = Did("fetchProducts", "", "", << "/api/product/list" >>, {},
                               "pending", "")
                /\ UNCHANGED products
    /\ UNCHANGED << user, isSeller, showUserLogin, cartItems, backendConnected,
                    backendChecking, BACKEND_URL, view, mounted >>

\* lines 147-155: fetchSeller called by the UI, up to its await
fetchSeller ==
    /\ Called
    /\ IF ~view.backendConnected
       THEN /\ isSeller' = FALSE
            /\ tasks' = tasks
            /\ last' = Did("fetchSeller", "", "", << >>, {}, "undefined", "")
       ELSE LET t == Task("seller", "fetchSeller", view.backendConnected, NoPayload)
            IN  /\ CanIssue(t)
                /\ tasks' = tasks \cup {t}
                /\ last' = Did("fetchSeller", "", "", << "/api/seller/is-auth" >>, {},
                               "pending", "")
                /\ UNCHANGED isSeller
    /\ UNCHANGED << user, showUserLogin, products, cartItems, backendConnected,
                    backendChecking, loading, BACKEND_URL, view, mounted >>

\* lines 109-122: the product request ends.  In refreshBackendConnection
\* (line 408) fetchUser is called next, in the same closure: it issues its
\* request when that closure reads backendConnected = true (lines 127-133)
\* and otherwise returns, after which fetchSeller (line 409) falls back
ProductsResponse(t, outcome) ==
    LET toast == IF outcome.kind = "error" THEN {"Failed to load products"} ELSE {}
        rest == tasks \ {t}
        next == Task("user", t.owner, t.env, NoPayload)
    IN  /\ t \in tasks
        /\ Resumed
        /\ t.k = "products"
        /\ products' = LoadedProducts(outcome)
        /\ loading' = FALSE
        /\ IF t.owner = "refreshBackendConnection"
           THEN IF t.env
                THEN /\ next \notin rest
                     /\ tasks' = rest \cup {next}
                     /\ last' = Did("fetchProducts", t.owner, outcome.kind,
                                    << "/api/user/is-auth" >>, toast, "pending", "")
                     /\ UNCHANGED isSeller
                ELSE /\ tasks' = rest
                     /\ isSeller' = FALSE
                     /\ last' = Did("fetchProducts", t.owner, outcome.kind, << >>,
                                    toast, "true", "")
           ELSE /\ tasks' = rest
                /\ last' = Did("fetchProducts", t.owner, outcome.kind, << >>,
                               toast, "undefined", "")
                /\ UNCHANGED isSeller
        /\ UNCHANGED << user, showUserLogin, cartItems, backendConnected,
                        backendChecking, BACKEND_URL, view, mounted >>

\* fetchUser clearing the session when its request fails
UserAfterFetchClearing(outcome, old) ==
    IF outcome.kind = "ok" THEN outcome.user ELSE null

\* lines 135-143: what fetchUser stores for an answer; only a success that
\* carries a user is stored, the catch block writes nothing
UserAfterFetch(outcome, old) ==
    IF outcome.kind = "ok" THEN outcome.user ELSE old

CartAfterFetch(outcome, old) ==
    IF outcome.kind = "ok" THEN CartOf(outcome.user) ELSE old

\* lines 135-143: the user request of fetchUser ends; in
\* refreshBackendConnection fetchSeller (line 409) is called next
UserResponse(t, outcome) ==
    LET rest == tasks \ {t}
        next == Task("seller", t.owner, t.env, NoPayload)
    IN  /\ t \in tasks
        /\ Resumed
        /\ t.k = "user"
        /\ user' = UserAfterFetch(outcome, user)
        /\ cartItems' = CartAfterFetch(outcome, cartItems)
        /\ IF t.owner = "refreshBackendConnection"
           THEN IF t.env
                THEN /\ next \notin rest
                     /\ tasks' = rest \cup {next}
                     /\ last' = [ Did("fetchUser", t.owner, outcome.kind,
                                      << "/api/seller/is-auth" >>, {}, "pending", "")
                                  EXCEPT !.after = AfterLogout ]
                     /\ UNCHANGED isSeller
                ELSE /\ tasks' = rest
                     /\ isSeller' = FALSE
                     /\ last' = [ Did("fetchUser", t.owner, outcome.kind, << >>, {},
                                      "true", "")
                                  EXCEPT !.after = AfterLogout ]
           ELSE /\ tasks' = rest
                /\ last' = [ Did("fetchUser", t.owner, outcome.kind, << >>, {},
                                 "undefined", "")
                             EXCEPT !.after = AfterLogout ]
                /\ UNCHANGED isSeller
        /\ UNCHANGED << showUserLogin, products, backendConnected, backendChecking,
                        loading, BACKEND_URL, view, mounted >>

\* lines 157-167: the seller request of fetchSeller ends
SellerResponse(t, outcome) ==
    /\ t \in tasks
    /\ Resumed
    /\ t.k = "seller"
    /\ isSeller' = (outcome = "ok")
    /\ tasks' = tasks \ {t}
    /\ last' = Did("fetchSeller", t.owner, outcome, << >>, {},
                   IF t.owner = "refreshBackendConnection" THEN "true" ELSE "undefined",
                   "")
    /\ UNCHANGED << user, showUserLogin, products, cartItems, backendConnected,
                    backendChecking, loading, BACKEND_URL, view, mounted >>

(* --------------------------- authentication --------------------------- *)

\* answers to the login, register and Google requests:
\*   ok                 data.success with data.user
\*   malformed          data.success without data.user
\*   rejected           success = false with a message
\*   rejectedNoMessage  success = false without a message
\*   errorMessage       failed request whose response carries a message
\*   error              failed request without one (timeout, no response)
AuthOutcomes ==
    { [kind |-> "ok", user |-> u] : u \in BackendUsers }
    \cup { [kind |-> k, user |-> null] :
             k \in {"malformed", "rejected", "rejectedNoMessage", "errorMessage", "error"} }

SellerLoginOutcomes ==
    {"ok", "rejected", "rejectedNoMessage", "errorMessage", "error"}

Unavailable == "Backend not available. Please check server connection."

\* the demo variant: with the backend disconnected the action accepts the
\* credentials and fabricates a local user
StartAuthDemo(op, path, rejection) ==
    /\ Called
    /\ IF ~view.backendConnected
       THEN /\ user' = [id |-> "demo", cart |-> {}]
            /\ tasks' = tasks
            /\ last' = Did(op, "", "", << >>, {"Login successful!"}, "{success:true}", "")
       ELSE LET t == Task(op, op, view.backendConnected, NoPayload)
            IN  /\ CanIssue(t)
                /\ tasks' = tasks \cup {t}
                /\ last' = Did(op, "", "", << path >>, {}, "pending", "")
                /\ UNCHANGED user
    /\ UNCHANGED << isSeller, showUserLogin, products, cartItems, backendConnected,
                    backendChecking, loading, BACKEND_URL, view, mounted >>

\* the part shared by the four actions: reject when the closure reads
\* backendConnected = false, else issue the request (lines 172-178, 206-212,
\* 234-240, 265-271)
StartAuth(op, path, rejection) ==
    /\ Called
    /\ IF ~view.backendConnected
       THEN /\ tasks' = tasks
            /\ last' = Did(op, "", "", << >>, {Unavailable}, rejection, "")
       ELSE LET t == Task(op, op, view.backendConnected, NoPayload)
            IN  /\ CanIssue(t)
                /\ tasks' = tasks \cup {t}
                /\ last' = Did(op, "", "", << path >>, {}, "pending", "")
    /\ UNCHANGED << state, BACKEND_URL, view, mounted >>

sellerLogin ==
    StartAuth("sellerLogin", "/api/seller/login",
              "{success:false,message:Backend not available}")

googleLogin == StartAuth("googleLogin", "/api/user/google-auth", "false")

userRegister ==
    StartAuth("userRegister", "/api/user/register",
              "{success:false,message:Backend not available}")

userLogin ==
    StartAuth("userLogin", "/api/user/login",
              "{success:false,message:Backend not available}")

\* the functions without their catch block for the TypeError of reading
\* data.user.cart: the exception leaves the function
FailureUncaught(kind, generic) ==
    CASE kind = "rejected" -> "{success:false,message:<server message>}"
      [] kind = "rejectedNoMessage" -> "{success:false,message:undefined}"
      [] kind = "errorMessage" -> "{success:false,message:<server message>}"
      [] kind = "malformed" -> "TypeError"
      [] OTHER -> generic

\* the result object of a failed login / registration / seller login
Failure(kind, generic) ==
    CASE kind = "rejected" -> "{success:false,message:<server message>}"
      [] kind = "rejectedNoMessage" -> "{success:false,message:undefined}"
      [] kind = "errorMessage" -> "{success:false,message:<server message>}"
      [] OTHER -> generic

\* lines 183-200
SellerLoginResponse(t, outcome) ==
    /\ t \in tasks
    /\ Resumed
    /\ t.k = "sellerLogin"
    /\ tasks' = tasks \ {t}
    /\ IF outcome = "ok"
       THEN /\ isSeller' = TRUE
            /\ last' = Did("sellerLogin", "", outcome, << >>,
                           {"Seller login successful!"}, "{success:true}", "")
       ELSE /\ isSeller' = isSeller
            /\ last' = Did("sellerLogin", "", outcome, << >>,
                  CASE outcome = "rejected" -> {"<server message>"}
                    [] outcome = "rejectedNoMessage" -> {"Login failed"}
                    [] outcome = "errorMessage" -> {"<server message>"}
                    [] OTHER -> {"Login failed - server error"},
                  Failure(outcome, "{success:false,message:Server error}"), "")
    /\ UNCHANGED << user, showUserLogin, products, cartItems, backendConnected,
                    backendChecking, loading, BACKEND_URL, view, mounted >>

\* the answer of a request that was cancelled: nothing is stored
UserAfterLoginCancelled(outcome, old) == old

\* lines 277-278 and 217-218: setUser(data.user), then
\* setCartItems(data.user.cart || {}).  With no data.user the first call
\* stores undefined and the second statement throws a TypeError into the
\* catch block of the function, before setCartItems is called
UserAfterLogin(outcome, old) ==
    IF outcome.kind \in {"ok", "malformed"} THEN outcome.user ELSE old

CartAfterLogin(outcome, old) ==
    IF outcome.kind = "ok" THEN CartOf(outcome.user) ELSE old

\* lines 276-296
LoginResponse(t, outcome) ==
    /\ t \in tasks
    /\ Resumed
    /\ t.k = "userLogin"
    /\ tasks' = tasks \ {t}
    /\ user' = UserAfterLogin(outcome, user)
    /\ cartItems' = CartAfterLogin(outcome, cartItems)
    /\ showUserLogin' = IF outcome.kind = "ok" THEN FALSE ELSE showUserLogin
    /\ last' = [ ( IF outcome.kind = "ok"
                   THEN Did("userLogin", outcome.user.id, outcome.kind, << >>,
                            {"Login successful!"}, "{success:true}", "")
                   ELSE Did("userLogin", outcome.user.id, outcome.kind, << >>,
                            CASE outcome.kind = "rejected" -> {"<server message>"}
                              [] outcome.kind = "rejectedNoMessage" -> {"undefined"}
                              [] outcome.kind = "errorMessage" -> {"<server message>"}
                              [] OTHER -> {"Login failed"},
                            Failure(outcome.kind, "{success:false,message:Login failed}"),
                            "") )
                 EXCEPT !.after = AfterLogout ]
    /\ UNCHANGED << isSeller, products, backendConnected, backendChecking, loading,
                    BACKEND_URL, view, mounted >>

\* lines 216-229
GoogleLoginResponse(t, outcome) ==
    /\ t \in tasks
    /\ Resumed
    /\ t.k = "googleLogin"
    /\ tasks' = tasks \ {t}
    /\ user' = UserAfterLogin(outcome, user)
    /\ cartItems' = CartAfterLogin(outcome, cartItems)
    /\ last' = [ ( IF outcome.kind = "ok"
                   THEN Did("googleLogin", outcome.user.id, outcome.kind, << >>,
                            {"Google login successful!"}, "true", "")
                   ELSE Did("googleLogin", outcome.user.id, outcome.kind, << >>,
                            IF outcome.kind = "rejected"
                            THEN {"<server message>"} ELSE {"Google login failed"},
                            "false", "") )
                 EXCEPT !.after = AfterLogout ]
    /\ UNCHANGED << isSeller, showUserLogin, products, backendConnected,
                    backendChecking, loading, BACKEND_URL, view, mounted >>

\* lines 242-259: registration stores data.user and leaves cartItems alone
RegisterResponse(t, outcome) ==
    /\ t \in tasks
    /\ Resumed
    /\ t.k = "userRegister"
    /\ tasks' = tasks \ {t}
    /\ user' = IF outcome.kind \in {"ok", "malformed"} THEN outcome.user ELSE user
    /\ last' = IF outcome.kind \in {"ok", "malformed"}
               THEN Did("userRegister", outcome.user.id, outcome.kind, << >>,
                        {"Registration successful!"}, "{success:true}", "")
               ELSE Did("userRegister", outcome.user.id, outcome.kind, << >>,
                        CASE outcome.kind = "rejected" -> {"<server message>"}
                          [] outcome.kind = "rejectedNoMessage" -> {"undefined"}
                          [] outcome.kind = "errorMessage" -> {"<server message>"}
                          [] OTHER -> {"Registration failed"},
                        Failure(outcome.kind,
                                "{success:false,message:Registration failed}"), "")
    /\ UNCHANGED << isSeller, showUserLogin, products, cartItems, backendConnected,
                    backendChecking, loading, BACKEND_URL, view, mounted >>

\* lines 309-312 without line 310: the cart survives the logout
ClearSessionKeepingCart ==
    /\ user' = null
    /\ cartItems' = cartItems
    /\ isSeller' = FALSE

\* lines 309-312: what userLogout always ends with
ClearSession ==
    /\ user' = null
    /\ cartItems' = EmptyCart
    /\ isSeller' = FALSE

\* lines 300-312: userLogout, up to its await when the closure reads
\* backendConnected = true, to its end otherwise
userLogout ==
    /\ Called
    /\ IF view.backendConnected
       THEN LET t == Task("logout", "userLogout", view.backendConnected, NoPayload)
            IN  /\ CanIssue(t)
                /\ tasks' = tasks \cup {t}
                /\ last' = Did("userLogout", "", "", << "/api/user/logout" >>, {},
                               "pending", "")
                /\ UNCHANGED << user, cartItems, isSeller >>
       ELSE /\ ClearSession
            /\ tasks' = tasks
            /\ last' = Did("userLogout", "", "", << >>, {"Logged out successfully"},
                           "undefined", "")
    /\ UNCHANGED << showUserLogin, products, backendConnected, backendChecking,
                    loading, BACKEND_URL, view, mounted >>

\* lines 303-312: the logout request ends, with or without an error
LogoutResponse(t, outcome) ==
    /\ t \in tasks
    /\ Resumed
    /\ t.k = "logout"
    /\ tasks' = tasks \ {t}
    /\ ClearSession
    /\ last' = Did("userLogout", "", outcome, << >>, {"Logged out successfully"},
                   "undefined", "")
    /\ UNCHANGED << showUserLogin, products, backendConnected, backendChecking,
                    loading, BACKEND_URL, view, mounted >>

(* ------------------------------ queries ------------------------------- *)

RECURSIVE CountLoop(_, _)
\* lines 384-387: the for-in loop of cartCount over the keys still to visit
CountLoop(c, keys) ==
    IF keys = {} THEN 0
    ELSE LET item == CHOOSE k \in keys : TRUE
         IN  c[item] + CountLoop(c, keys \ {item})

\* the loop counting the keys instead of adding up the quantities
cartCountOfKeys == Cardinality(DOMAIN view.cartItems)

\* lines 383-389, in the closure of the latest render
cartCount == CountLoop(view.cartItems, DOMAIN view.cartItems)

\* line 395: products.find(product => product._id === itemId); {} when
\* nothing is found, else the first match
Find(list, itemId) ==
    LET hits == { n \in 1 .. Len(list) : list[n]._id = itemId }
    IN  IF hits = {} THEN {}
        ELSE { list[CHOOSE n \in hits : \A m \in hits : n <= m] }

\* line 397: itemInfo.offerPrice || itemInfo.price (an absent offerPrice and
\* an offerPrice of 0 are both falsy)
EffectivePrice(itemInfo) ==
    IF itemInfo.offerPrice = {} \/ itemInfo.offerPrice = {0}
    THEN itemInfo.price
    ELSE CHOOSE v \in itemInfo.offerPrice : TRUE

\* lines 395-398: what one cart entry adds to totalAmount
LineAmount(c, list, itemId) ==
    LET found == Find(list, itemId)
    IN  IF found # {} /\ c[itemId] > 0
        THEN c[itemId] * EffectivePrice(CHOOSE p \in found : TRUE)
        ELSE 0

RECURSIVE AmountLoop(_, _, _)
\* lines 394-399: the for-in loop of totalCartAmount
AmountLoop(c, list, keys) ==
    IF keys = {} THEN 0
    ELSE LET itemId == CHOOSE k \in keys : TRUE
         IN  LineAmount(c, list, itemId) + AmountLoop(c, list, keys \ {itemId})

\* line 400: Math.floor(totalAmount * 100) / 100, on thousandths
Floor2(amount) == (amount \div 10) * 10

\* lines 392-401, in the closure of the latest render
totalCartAmount ==
    Floor2(AmountLoop(view.cartItems, view.products, DOMAIN view.cartItems))

(* ---------------------------- specification --------------------------- *)

Next ==
    \/ Render
    \/ initializeApp
    \/ refreshBackendConnection
    \/ checkBackendConnection
    \/ fetchProducts
    \/ fetchSeller
    \/ sellerLogin
    \/ googleLogin
    \/ userRegister
    \/ userLogin
    \/ userLogout
    \/ \E itemId \in Items : addToCart(itemId)
    \/ \E itemId \in Items, quantity \in Quantities : updateCartItem(itemId, quantity)
    \/ \E itemId \in Items : removeFromCart(itemId)
    \/ \E t \in tasks, outcome \in HealthOutcomes : HealthResponse(t, outcome)
    \/ \E t \in tasks, outcome \in ProductsOutcomes : ProductsResponse(t, outcome)
    \/ \E t \in tasks, outcome \in UserOutcomes : UserResponse(t, outcome)
    \/ \E t \in tasks, outcome \in SimpleOutcomes : SellerResponse(t, outcome)
    \/ \E t \in tasks, outcome \in SellerLoginOutcomes : SellerLoginResponse(t, outcome)
    \/ \E t \in tasks, outcome \in AuthOutcomes : LoginResponse(t, outcome)
    \/ \E t \in tasks, outcome \in AuthOutcomes : GoogleLoginResponse(t, outcome)
    \/ \E t \in tasks, outcome \in AuthOutcomes : RegisterResponse(t, outcome)
    \/ \E t \in tasks, outcome \in {"ok", "error"} : LogoutResponse(t, outcome)
    \/ \E t \in tasks, outcome \in {"ok", "error"} : CartPushResponse(t, outcome)

Spec == Init /\ [][Next]_vars

\* the provider under a UI that uses only the cart and login / logout part of
\* the context value: every writer of cartItems and of what the cart
\* mutations read
NextCart ==
    \/ Render
    \/ initializeApp
    \/ userLogin
    \/ userLogout
    \/ \E itemId \in Items : addToCart(itemId)
    \/ \E itemId \in Items, quantity \in Quantities : updateCartItem(itemId, quantity)
    \/ \E itemId \in Items : removeFromCart(itemId)
    \/ \E t \in tasks, outcome \in HealthOutcomes : HealthResponse(t, outcome)
    \/ \E t \in tasks, outcome \in AuthOutcomes : LoginResponse(t, outcome)
    \/ \E t \in tasks, outcome \in {"ok", "error"} : LogoutResponse(t, outcome)
    \/ \E t \in tasks, outcome \in {"ok", "error"} : CartPushResponse(t, outcome)

SpecCart == Init /\ [][NextCart]_vars

\* the provider under a UI that uses only the connectivity and loader part of
\* the context value: every caller of checkBackendConnection and of the
\* loaders
NextConn ==
    \/ Render
    \/ initializeApp
    \/ refreshBackendConnection
    \/ checkBackendConnection
    \/ fetchProducts
    \/ fetchSeller
    \/ \E t \in tasks, outcome \in HealthOutcomes : HealthResponse(t, outcome)
    \/ \E t \in tasks, outcome \in ProductsOutcomes : ProductsResponse(t, outcome)
    \/ \E t \in tasks, outcome \in UserOutcomes : UserResponse(t, outcome)
    \/ \E t \in tasks, outcome \in SimpleOutcomes : SellerResponse(t, outcome)

SpecConn == Init /\ [][NextConn]_vars

\* the provider under a UI that uses only the session part of the context
\* value: the four authentication actions, logout, and updateCartItem as the
\* writer of a cart that is there before a session starts
NextAuth ==
    \/ Render
    \/ initializeApp
    \/ sellerLogin
    \/ googleLogin
    \/ userRegister
    \/ userLogin
    \/ userLogout
    \/ \E itemId \in Items, quantity \in Quantities : updateCartItem(itemId, quantity)
    \/ \E t \in tasks, outcome \in HealthOutcomes : HealthResponse(t, outcome)
    \/ \E t \in tasks, outcome \in SellerLoginOutcomes : SellerLoginResponse(t, outcome)
    \/ \E t \in tasks, outcome \in AuthOutcomes : LoginResponse(t, outcome)
    \/ \E t \in tasks, outcome \in AuthOutcomes : GoogleLoginResponse(t, outcome)
    \/ \E t \in tasks, outcome \in AuthOutcomes : RegisterResponse(t, outcome)
    \/ \E t \in tasks, outcome \in {"ok", "error"} : LogoutResponse(t, outcome)
    \/ \E t \in tasks, outcome \in {"ok", "error"} : CartPushResponse(t, outcome)

SpecAuth == Init /\ [][NextAuth]_vars

\* the provider under a UI that only starts and ends sessions: the three
\* functions whose answers set user and cartItems (fetchUser through
\* refreshBackendConnection) and logout
NextSession ==
    \/ Render
    \/ initializeApp
    \/ refreshBackendConnection
    \/ googleLogin
    \/ userLogin
    \/ userLogout
    \/ \E t \in tasks, outcome \in HealthOutcomes : HealthResponse(t, outcome)
    \/ \E t \in tasks, outcome \in ProductsOutcomes : ProductsResponse(t, outcome)
    \/ \E t \in tasks, outcome \in UserOutcomes : UserResponse(t, outcome)
    \/ \E t \in tasks, outcome \in SimpleOutcomes : SellerResponse(t, outcome)
    \/ \E t \in tasks, outcome \in AuthOutcomes : LoginResponse(t, outcome)
    \/ \E t \in tasks, outcome \in AuthOutcomes : GoogleLoginResponse(t, outcome)
    \/ \E t \in tasks, outcome \in {"ok", "error"} : LogoutResponse(t, outcome)

SpecSession == Init /\ [][NextSession]_vars

\* the provider under a UI that calls a function of the context value only
\* when no request is in flight
Idle == tasks = {}

NextSolo ==
    \/ Render
    \/ initializeApp
    \/ Idle /\ refreshBackendConnection
    \/ Idle /\ checkBackendConnection
    \/ Idle /\ fetchProducts
    \/ Idle /\ fetchSeller
    \/ Idle /\ sellerLogin
    \/ Idle /\ googleLogin
    \/ Idle /\ userRegister
    \/ Idle /\ userLogin
    \/ Idle /\ userLogout
    \/ \E itemId \in Items : Idle /\ addToCart(itemId)
    \/ \E itemId \in Items, quantity \in Quantities :
          Idle /\ updateCartItem(itemId, quantity)
    \/ \E itemId \in Items : Idle /\ removeFromCart(itemId)
    \/ \E t \in tasks, outcome \in HealthOutcomes : HealthResponse(t, outcome)
    \/ \E t \in tasks, outcome \in ProductsOutcomes : ProductsResponse(t, outcome)
    \/ \E t \in tasks, outcome \in UserOutcomes : UserResponse(t, outcome)
    \/ \E t \in tasks, outcome \in SimpleOutcomes : SellerResponse(t, outcome)
    \/ \E t \in tasks, outcome \in SellerLoginOutcomes : SellerLoginResponse(t, outcome)
    \/ \E t \in tasks, outcome \in AuthOutcomes : LoginResponse(t, outcome)
    \/ \E t \in tasks, outcome \in AuthOutcomes : GoogleLoginResponse(t, outcome)
    \/ \E t \in tasks, outcome \in AuthOutcomes : RegisterResponse(t, outcome)
    \/ \E t \in tasks, outcome \in {"ok", "error"} : LogoutResponse(t, outcome)
    \/ \E t \in tasks, outcome \in {"ok", "error"} : CartPushResponse(t, outcome)

SpecSolo == Init /\ [][NextSolo]_vars

(* ------------------------------- claims ------------------------------- *)

\* a step of the UI calling one of the three cart mutations (last' names it)
CartMutationCalled(l) == l.op \in {"addToCart", "updateCartItem", "removeFromCart"}

\* C1: every key stored in cartItems maps to an integer quantity >= 0 and no
\* key maps to 0, i.e. every stored quantity is a positive integer
C1_CartQuantitiesPositive ==
    \A k \in DOMAIN cartItems : cartItems[k] \in Int /\ cartItems[k] > 0

\* the cart c with the quantity of p raised by exactly 1 (an absent key
\* counting as 0) and every other entry unchanged
PlusOne(c, p) == Put(c, p, (IF p \in DOMAIN c THEN c[p] ELSE 0) + 1)

\* C2: with an authenticated user present, every addToCart(p) call raises the
\* stored quantity of p by exactly 1 and leaves every other entry unchanged,
\* also when the previous call's update has not been rendered yet
C2_NoLostIncrement ==
    [][ ( /\ Truthy(user)
          /\ Truthy(view.user)
          /\ last'.op = "addToCart" )
        => cartItems' = PlusOne(cartItems, last'.arg) ]_vars

\* the sum of the quantities of a cart, as a count of units: one per unit of
\* a positive quantity, minus one per unit of a negative quantity
SumOfQuantities(c) ==
    Cardinality(UNION { { << k, n >> : n \in 1 .. c[k] } : k \in DOMAIN c })
    - Cardinality(UNION { { << k, n >> : n \in 1 .. (0 - c[k]) } : k \in DOMAIN c })

\* C3: in every reachable state cartCount() returns exactly the sum of the
\* quantities stored in the cartItems the context value exposes (the cart of
\* the render whose closure cartCount is), and 0 for the empty cart
C3_CartCountIsSum ==
    /\ cartCount = SumOfQuantities(view.cartItems)
    /\ (view.cartItems = EmptyCart => cartCount = 0)

C3_Witness ==
    /\ Cardinality(DOMAIN view.cartItems) = 2
    /\ \E k \in DOMAIN view.cartItems : view.cartItems[k] >= 2
    /\ cartCount >= 3

\* the effective price the claim names: offerPrice when the product has one,
\* an offerPrice of 0 included, else price
ClaimedPrice(p) ==
    IF p.offerPrice # {} THEN CHOOSE v \in p.offerPrice : TRUE ELSE p.price

RECURSIVE ClaimedSum(_, _, _)
\* the sum the claim names: quantity x effective price over the cart entries
\* whose id is in the product list
ClaimedSum(c, list, keys) ==
    IF keys = {} THEN 0
    ELSE LET k == CHOOSE x \in keys : TRUE
             found == { n \in 1 .. Len(list) : list[n]._id = k }
             line == IF found = {} THEN 0
                     ELSE c[k] * ClaimedPrice(list[CHOOSE n \in found :
                                                     \A m \in found : n <= m])
         IN  line + ClaimedSum(c, list, keys \ {k})

\* C4: totalCartAmount() equals the sum, over the cart entries whose id is in
\* the product list, of quantity x effective price, floored to 2 decimals,
\* the effective price being offerPrice when present (0 included), else
\* price.  Stated for the carts whose quantities are all positive, where the
\* claim does not depend on how a quantity <= 0 is counted
C4_TotalIsClaimedSum ==
    (\A k \in DOMAIN view.cartItems : view.cartItems[k] > 0)
    => totalCartAmount
         = Floor2(ClaimedSum(view.cartItems, view.products, DOMAIN view.cartItems))

\* C5: a userLogin call that ends in failure leaves user and cartItems as
\* they were; one that succeeds replaces user by the returned user and
\* cartItems by that user's cart in the same step
C5_LoginOutcome ==
    [][ (last'.op = "userLogin" /\ last'.outcome # "")
        => IF last'.ret = "{success:true}"
           THEN /\ user'.id = last'.arg
                /\ user' \in BackendUsers
                /\ cartItems' = CartOf(user')
           ELSE /\ user' = user
                /\ cartItems' = cartItems ]_vars

\* C6: when the startup health probe succeeds, initializeApp issues the
\* product-list, user-auth and seller-auth requests
C6_StartupIssuesLoads ==
    (last.op = "initializeApp" /\ last.check = "true")
    => { last.issued[n] : n \in 1 .. Len(last.issued) }
         = { "/api/product/list", "/api/user/is-auth", "/api/seller/is-auth" }

\* a step in which fetchProducts, fetchUser or fetchSeller is invoked: by the
\* UI, or by refreshBackendConnection as it goes on to its next loader
LoaderInvoked(l) ==
    \/ l.op \in {"fetchProducts", "fetchSeller"} /\ l.outcome = ""
    \/ /\ l.op \in {"fetchProducts", "fetchUser"}
       /\ l.outcome # ""
       /\ l.arg = "refreshBackendConnection"

\* C7: while the connectivity state is disconnected (and the UI has rendered
\* it) no invocation of fetchProducts, fetchUser or fetchSeller issues a
\* network request, and the fallback applied is products = empty list,
\* isSeller = false
C7_NoLoaderRequestWhileDisconnected ==
    [][ ( /\ ~backendConnected /\ ~view.backendConnected
          /\ ~backendConnected'
          /\ LoaderInvoked(last') )
        => /\ last'.issued = << >>
           /\ (last'.op = "fetchProducts" /\ last'.outcome = "" => products' = << >>)
           /\ (last'.op = "fetchSeller" /\ last'.outcome = "" => isSeller' = FALSE)
      ]_vars

\* C8: after any health check that ends in failure, at startup or through
\* refreshBackendConnection after an earlier successful load, backendConnected
\* and backendChecking are false, products is the empty fallback and the
\* failing path has set no user
C8_FailedCheckFallsBack ==
    [][ last'.check = "false"
        => /\ backendConnected' = FALSE
           /\ backendChecking' = FALSE
           /\ products' = << >>
           /\ user' = user ]_vars

\* the number of health requests among the requests a step issued
HealthRequests(l) ==
    Cardinality({ n \in 1 .. Len(l.issued) : l.issued[n] = "/api/health" })

\* C9: checkBackendConnection never raises: whatever the outcome of the
\* health request it returns a boolean, true exactly when a response with
\* status < 500 arrived; backendConnected is the value returned and
\* backendChecking is false when it finishes; the invocation issues at most
\* one health request (at most one in the step that calls it, none in the
\* step that finishes it)
C9_CheckReturnsBoolean ==
    /\ HealthRequests(last) <= 1
    /\ last.check # ""
       => /\ last.check \in {"true", "false"}
          /\ (last.op = "checkBackendConnection" => last.ret = last.check)
          /\ backendConnected = (last.check = "true")
          /\ backendChecking = FALSE
          /\ (last.check = "true") = (last.outcome \in {"2xx", "3xx", "4xx"})
          /\ (last.outcome # "" => HealthRequests(last) = 0)
          /\ (BACKEND_URL = "" => last.issued = << >> /\ last.check = "false")

C9_Witness ==
    /\ last.op = "checkBackendConnection"
    /\ last.check = "true"
    /\ last.outcome = "4xx"

\* C10: when no authenticated user is present and the backend is connected,
\* a call of addToCart, updateCartItem or removeFromCart leaves cartItems
\* unchanged, issues no cart push and sets the show-login-prompt flag
C10_LoginGate ==
    [][ ( /\ ~Truthy(user) /\ ~Truthy(view.user)
          /\ backendConnected /\ view.backendConnected
          /\ CartMutationCalled(last') )
        => /\ cartItems' = cartItems
           /\ last'.issued = << >>
           /\ showUserLogin' = TRUE ]_vars

\* the cart c with the quantity of p lowered by exactly 1, the key deleted
\* when that leaves 0, and every other entry unchanged
MinusOne(c, p) == IF c[p] = 1 THEN Del(c, p) ELSE Put(c, p, c[p] - 1)

\* C11: an accepted cart mutation writes its new mapping to cartItems in the
\* step of the call itself (before any response, connected or not): add
\* raises the entry of the cart it read by one, set-quantity stores the key
\* and leaves the other entries, remove lowers the entry by one; a push it
\* issues carries that mapping; and the step that handles the answer of a
\* cart push, failed ones included, writes nothing to cartItems
C11_OptimisticUpdateKept ==
    [][ /\ (last'.op = "addToCart" /\ Truthy(view.user)
              => cartItems' = PlusOne(view.cartItems, last'.arg))
        /\ (last'.op = "updateCartItem"
              => /\ last'.arg \in DOMAIN cartItems'
                 /\ Del(cartItems', last'.arg) = Del(view.cartItems, last'.arg))
        /\ (last'.op = "removeFromCart" /\ HasQty(view.cartItems, last'.arg)
              => cartItems' = MinusOne(view.cartItems, last'.arg))
        /\ (CartMutationCalled(last')
              => \A t \in tasks' \ tasks : t.payload = cartItems')
        /\ (last'.op = "cartPushResponse" => cartItems' = cartItems) ]_vars

C11_Witness ==
    /\ last.op = "cartPushResponse"
    /\ last.outcome = "error"
    /\ cartItems # EmptyCart

\* C12: a userLogout call that has finished leaves user absent, cartItems
\* empty and isSeller false, whatever the answer to its logout request, and
\* shows the confirmation and no error; called from a render that shows the
\* backend disconnected it issues no request and finishes in the step of the
\* call
C12_LogoutClears ==
    [][ /\ (last'.op = "userLogout" /\ last'.ret # "pending"
              => /\ user' = null
                 /\ cartItems' = EmptyCart
                 /\ isSeller' = FALSE
                 /\ last'.toast = {"Logged out successfully"}
                 /\ last'.ret = "undefined")
        /\ (last'.op = "userLogout" /\ last'.outcome = ""
             /\ ~view.backendConnected
              => last'.issued = << >> /\ last'.ret # "pending")
        /\ (last'.op = "userLogout" /\ last'.outcome = ""
              => Len(last'.issued) <= 1) ]_vars

C12_Witness ==
    /\ last.op = "userLogout"
    /\ last.outcome = "error"
    /\ Truthy(view.user)
    /\ view.cartItems # EmptyCart
    /\ user = null

AuthActions == {"userLogin", "userRegister", "googleLogin", "sellerLogin"}

\* C13: called from a render that shows the backend disconnected, each of
\* userLogin, userRegister, googleLogin and sellerLogin issues no request,
\* leaves user, cartItems, isSeller and showUserLogin unchanged and returns a
\* failure (success = false with the backend-unavailable message, false for
\* googleLogin)
C13_RejectWhenDisconnected ==
    [][ ( /\ last'.op \in AuthActions
          /\ last'.outcome = ""
          /\ ~view.backendConnected )
        => /\ last'.issued = << >>
           /\ tasks' = tasks
           /\ user' = user
           /\ cartItems' = cartItems
           /\ isSeller' = isSeller
           /\ showUserLogin' = showUserLogin
           /\ last'.ret = IF last'.op = "googleLogin" THEN "false"
                          ELSE "{success:false,message:Backend not available}"
           /\ last'.toast = {Unavailable} ]_vars

C13_Witness ==
    /\ last.op = "googleLogin"
    /\ last.outcome = ""
    /\ last.ret = "false"
    /\ ~view.backendConnected
    /\ cartItems # EmptyCart

\* the values a function of the provider returns when it completes normally
ResultObjects ==
    { "{success:true}",
      "{success:false,message:Backend not available}",
      "{success:false,message:<server message>}",
      "{success:false,message:undefined}",
      "{success:false,message:Server error}",
      "{success:false,message:Login failed}",
      "{success:false,message:Registration failed}" }

\* some request in flight is answered
Answered ==
    \/ \E t \in tasks, outcome \in HealthOutcomes : HealthResponse(t, outcome)
    \/ \E t \in tasks, outcome \in ProductsOutcomes : ProductsResponse(t, outcome)
    \/ \E t \in tasks, outcome \in UserOutcomes : UserResponse(t, outcome)
    \/ \E t \in tasks, outcome \in SimpleOutcomes : SellerResponse(t, outcome)
    \/ \E t \in tasks, outcome \in SellerLoginOutcomes : SellerLoginResponse(t, outcome)
    \/ \E t \in tasks, outcome \in AuthOutcomes : LoginResponse(t, outcome)
    \/ \E t \in tasks, outcome \in AuthOutcomes : GoogleLoginResponse(t, outcome)
    \/ \E t \in tasks, outcome \in AuthOutcomes : RegisterResponse(t, outcome)
    \/ \E t \in tasks, outcome \in {"ok", "error"} : LogoutResponse(t, outcome)
    \/ \E t \in tasks, outcome \in {"ok", "error"} : CartPushResponse(t, outcome)

\* C14: every step of every function ends in a normal result (a value, or
\* the function awaiting its request), never in an exception: a result
\* object for userLogin, userRegister and sellerLogin, a boolean for
\* googleLogin and the connectivity functions, undefined for the loaders,
\* logout and the cart mutations; and the provider stays usable: with no
\* request in flight every function can be called again, and with requests
\* in flight one of them can be answered (as far as the bounds on calls and
\* on steps between renders leave room)
C14_NoActionFaults ==
    /\ last.op # "render" => last.ret \in ResultObjects \cup {"pending", "undefined", "true", "false"}
    /\ ( last.op \in {"userLogin", "userRegister", "sellerLogin"} /\ last.ret # "pending"
          => last.ret \in ResultObjects )
    /\ ( last.op \in {"googleLogin", "checkBackendConnection", "refreshBackendConnection"}
          /\ last.ret # "pending"
          => last.ret \in {"true", "false"} )
    /\ ( last.op \in {"fetchProducts", "fetchUser", "fetchSeller"}
          /\ last.arg # "refreshBackendConnection" /\ last.ret # "pending"
          => last.ret = "undefined" )
    /\ ( last.op \in {"userLogout", "cartPushResponse", "addToCart", "updateCartItem",
                       "removeFromCart", "initializeApp"}
          /\ last.ret # "pending"
          => last.ret = "undefined" )
    /\ ( mounted /\ calls < MaxCalls /\ stale < MaxStale /\ tasks = {}
          => /\ ENABLED refreshBackendConnection
             /\ ENABLED checkBackendConnection
             /\ ENABLED fetchProducts
             /\ ENABLED fetchSeller
             /\ ENABLED sellerLogin
             /\ ENABLED googleLogin
             /\ ENABLED userRegister
             /\ ENABLED userLogin
             /\ ENABLED userLogout
             /\ ENABLED updateCartItem("p1", 1) )
    /\ ( tasks # {} /\ stale < MaxStale => ENABLED Answered )

C14_Witness ==
    /\ last.op = "userLogin"
    /\ last.outcome = "malformed"
    /\ last.ret = "{success:false,message:Login failed}"

\* C15: removeFromCart(p), on the cart c its render shows: with c[p] = 1 the
\* key p is deleted (not stored as 0); with c[p] = n >= 2 it becomes n - 1;
\* with p not in c nothing is written to cartItems and no push is issued; in
\* every case the entries other than p are left as they are
C15_RemoveDecrements ==
    [][ last'.op = "removeFromCart"
        => LET p == last'.arg
               c == view.cartItems
           IN  /\ (p \in DOMAIN c /\ c[p] = 1
                     => p \notin DOMAIN cartItems' /\ cartItems' = Del(c, p))
               /\ (p \in DOMAIN c /\ c[p] >= 2
                     => /\ p \in DOMAIN cartItems'
                        /\ cartItems'[p] = c[p] - 1)
               /\ (p \notin DOMAIN c
                     => /\ cartItems' = cartItems
                        /\ last'.issued = << >>
                        /\ tasks' = tasks)
               /\ (cartItems' = cartItems \/ Del(cartItems', p) = Del(c, p)) ]_vars

C15_Witness ==
    /\ last.op = "removeFromCart"
    /\ last.arg = "p1"
    /\ "p1" \in DOMAIN view.cartItems
    /\ view.cartItems["p1"] = 1
    /\ DOMAIN cartItems = {"p2"}

C15_WitnessDecrement ==
    /\ last.op = "removeFromCart"
    /\ last.arg \in DOMAIN view.cartItems
    /\ view.cartItems[last.arg] = 2
    /\ last.arg \in DOMAIN cartItems
    /\ cartItems[last.arg] = 1

\* C16: whenever the cart-update request issued by addToCart, updateCartItem
\* or removeFromCart fails, the step that handles the failure notifies the
\* user that the change was saved locally but not synced
C16_PushFailureSurfaced ==
    (last.op = "cartPushResponse" /\ last.outcome = "error")
    => "Cart updated locally but failed to sync with server" \in last.toast

\* C17: for each of userLogin, userRegister and googleLogin, the step that
\* handles a successful answer carrying a user makes user the returned user
\* and cartItems that user's cart (empty if it has none); the cart of the
\* previous session does not stay next to the new user
C17_AuthReplacesUserAndCart ==
    [][ ( /\ last'.op \in {"userLogin", "userRegister", "googleLogin"}
          /\ last'.outcome = "ok" )
        => /\ user' \in BackendUsers
           /\ user'.id = last'.arg
           /\ cartItems' = CartOf(user') ]_vars

\* the call of a cart mutation is accepted: addToCart with a user, any
\* updateCartItem, removeFromCart of an entry whose quantity is not 0 (all as
\* the render the call is made from shows them)
Accepted(l) ==
    \/ l.op = "addToCart" /\ Truthy(view.user)
    \/ l.op = "updateCartItem"
    \/ l.op = "removeFromCart" /\ HasQty(view.cartItems, l.arg)

\* C18: an accepted cart mutation called from a render that shows the backend
\* connected and a user present issues exactly one cart-update request, and
\* the request carries the complete mapping the mutation has just written to
\* cartItems; a mutation called from a render that shows the backend
\* disconnected or no user, and a mutation that is not accepted, issue none
C18_PushIsGatedSnapshot ==
    [][ CartMutationCalled(last')
        => IF Accepted(last') /\ view.backendConnected /\ Truthy(view.user)
           THEN /\ last'.issued = << "/api/cart/update" >>
                /\ \E t \in tasks' \ tasks :
                     /\ tasks' = tasks \cup {t}
                     /\ t.k = "cart"
                     /\ t.payload = cartItems'
           ELSE /\ last'.issued = << >>
                /\ tasks' = tasks ]_vars

C18_Witness ==
    /\ last.op = "updateCartItem"
    /\ last.issued = << "/api/cart/update" >>
    /\ Cardinality(DOMAIN cartItems) = 2
    /\ \E t \in tasks : t.k = "cart" /\ t.payload = cartItems

\* C19: there is no cancellation.  When userLogout has completed while a
\* userLogin, googleLogin or fetchUser request was in flight, and the success
\* answer of that request is handled in the next step, the answer finds user
\* absent and cartItems empty and sets both again, to the returned user and
\* that user's cart: user does not stay absent after userLogout although no
\* authentication action was started after it (the witness is such a state)
C19_StaleAnswerOverwrites ==
    [][ ( /\ last'.op \in {"userLogin", "googleLogin", "fetchUser"}
          /\ last'.outcome = "ok"
          /\ last'.after = "userLogout" )
        => /\ last.op = "userLogout"
           /\ user = null
           /\ cartItems = EmptyCart
           /\ Truthy(user')
           /\ cartItems' = CartOf(user') ]_vars

C19_Witness ==
    /\ last.op = "userLogin"
    /\ last.outcome = "ok"
    /\ last.after = "userLogout"
    /\ Truthy(view.user)
    /\ Truthy(user)
    /\ cartItems # EmptyCart

C19_WitnessFetchUser ==
    /\ last.op = "fetchUser"
    /\ last.outcome = "ok"
    /\ last.after = "userLogout"
    /\ Truthy(user)

C19_WitnessGoogle ==
    /\ last.op = "googleLogin"
    /\ last.outcome = "ok"
    /\ last.after = "userLogout"
    /\ Truthy(user)

\* C20: fetchUser never clears a session.  The step that handles the answer
\* to its request writes user and cartItems, both, when the answer is a
\* success carrying a user, and leaves both as they were for a failed request
\* and for an answer that is not such a success; the steps in which fetchUser
\* is invoked (by initializeApp or refreshBackendConnection after the check,
\* or after the product answer), connected or not, write neither
C20_FetchUserKeepsSession ==
    [][ /\ ( last'.op = "fetchUser" /\ last'.outcome = "ok"
              => /\ user' \in BackendUsers
                 /\ cartItems' = CartOf(user') )
        /\ ( last'.op = "fetchUser" /\ last'.outcome # "ok"
              => /\ user' = user
                 /\ cartItems' = cartItems )
        /\ ( last'.op \in {"initializeApp", "refreshBackendConnection", "fetchProducts"}
              => /\ user' = user
                 /\ cartItems' = cartItems ) ]_vars

C20_Witness ==
    /\ last.op = "fetchUser"
    /\ last.outcome = "error"
    /\ Truthy(user)
    /\ cartItems # EmptyCart

====
